---- MODULE Spec2Model ----
(***************************************************************************)
(* Model of the vAMM arithmetic of the SDK (math/amm): calculatePrice,     *)
(* calculateSwapOutput, calculateAmmReservesAfterSwap, getSwapDirection,   *)
(* calculateAdjustKCost, calculateRepegCost, calculateTerminalPrice and    *)
(* calculateMaxBaseAssetAmountToTrade.                                     *)
(*                                                                         *)
(* The functions are pure.  The state is the AMM snapshot a caller holds,  *)
(* the call made on it and what that call returned.  Calls are made one   *)
(* at a time; the caller then drops the result (Discard) or feeds the     *)
(* reserves a swap returned into the snapshot (FeedSwap), which is how    *)
(* swaps compose against the same sqrtK.                                   *)
(*                                                                         *)
(* BN is bn.js: arbitrary precision, div truncates toward zero, and a      *)
(* division by zero throws.  The scale constants are scaled down so that   *)
(* every intermediate product fits TLC's integers; truncation happens at   *)
(* the same places as in the code.                                         *)
(***************************************************************************)
EXTENDS Integers, FiniteSets, Sequences, TLC

VARIABLES amm, call, ret

vars == <<amm, call, ret>>

(*************************** bounds of the model ***************************)
\* sqrtK ranges over 1..MaxSqrtK
MaxSqrtK == 6
\* swap amounts range over -1..MaxSwap
MaxSwap == 4
\* market.baseAssetAmount ranges over -MaxNet..MaxNet
MaxNet == 4
\* numerator and denomenator range over -1..MaxScale
MaxScale == 3
\* limit prices are multiples k * LimitStep, k in -1..MaxLimit
MaxLimit == 4
LimitStep == 5

(**************************** scale constants ******************************)
MARK_PRICE_PRECISION == 10
PEG_PRECISION == 10
ZERO == 0
ONE == 1

\* peg multipliers a market may carry (peg scale: 3 is 0.3, 30 is 3.0)
PegMultipliers == {3, 10, 30}

(******************************** bn.js ************************************)
abs(a) == IF a < 0 THEN -a ELSE a

\* BN.div: truncating toward zero; the divisor is nonzero (callers check)
div(a, b) ==
  IF (a >= 0) = (b > 0) THEN abs(a) \div abs(b) ELSE -(abs(a) \div abs(b))

\* BN.mod: the remainder of the truncating division (sign of the dividend)
mod(a, b) == a - b * div(a, b)

(******************************* types.ts **********************************)
ADD == "add"
REMOVE == "remove"
LONG == "long"
SHORT == "short"

\* isVariant(object, type): the variant object carries the key `type`
isVariant(object, type) == object = type

(****************************** results ************************************)
\* What a call returned or threw.  status is "ok", or names the throw.
NoRet ==
  [status |-> "none", quoteAssetReserve |-> 0, baseAssetReserve |-> 0,
   value |-> 0, direction |-> "none"]

Threw(what) == [NoRet EXCEPT !.status = what]

Reserves(q, b) ==
  [NoRet EXCEPT !.status = "ok", !.quoteAssetReserve = q, !.baseAssetReserve = b]

Value(v) == [NoRet EXCEPT !.status = "ok", !.value = v]

Trade(v, d) == [NoRet EXCEPT !.status = "ok", !.value = v, !.direction = d]

Direction(d) == [NoRet EXCEPT !.status = "ok", !.direction = d]

(**************************** calculatePrice *******************************)
calculatePrice(baseAssetAmount, quoteAssetAmount, peg_multiplier) ==
  IF abs(baseAssetAmount) <= ZERO
  THEN 0
  ELSE div(div(quoteAssetAmount * MARK_PRICE_PRECISION * peg_multiplier,
               PEG_PRECISION),
           baseAssetAmount)

(************************** calculateSwapOutput ****************************)
\* The new input reserve: grown on ADD, shrunk otherwise
NewInputAssetReserve(inputAssetReserve, swapAmount, swapDirection) ==
  IF swapDirection = ADD
  THEN inputAssetReserve + swapAmount
  ELSE inputAssetReserve - swapAmount

\* Faulty variant: the output reserve is rounded up instead of truncated
calculateSwapOutput_Up(inputAssetReserve, swapAmount, swapDirection, invariant) ==
  LET newInputAssetReserve ==
        NewInputAssetReserve(inputAssetReserve, swapAmount, swapDirection)
  IN  IF newInputAssetReserve = 0
      THEN [status |-> "divisionByZero", in |-> 0, out |-> 0]
      ELSE [status |-> "ok", in |-> newInputAssetReserve,
            out |-> div(invariant + abs(newInputAssetReserve) - 1,
                        newInputAssetReserve)]

\* Returns [status, in, out]; invariant.div(0) throws in bn.js
calculateSwapOutput(inputAssetReserve, swapAmount, swapDirection, invariant) ==
  LET newInputAssetReserve ==
        NewInputAssetReserve(inputAssetReserve, swapAmount, swapDirection)
  IN  IF newInputAssetReserve = 0
      THEN [status |-> "divisionByZero", in |-> 0, out |-> 0]
      ELSE [status |-> "ok", in |-> newInputAssetReserve,
            out |-> div(invariant, newInputAssetReserve)]

(********************* calculateAmmReservesAfterSwap ***********************)
\* Faulty variant: every REMOVE is rounded up, remainder or not
QuoteSwapAmount_AlwaysUpOnRemove(a, swapAmount, swapDirection) ==
  LET truncated == div(swapAmount * MARK_PRICE_PRECISION, a.pegMultiplier)
  IN  IF swapDirection = REMOVE THEN truncated + ONE ELSE truncated

\* Faulty variant: the conversion is truncated in both directions
QuoteSwapAmount_NeverUp(a, swapAmount, swapDirection) ==
  div(swapAmount * MARK_PRICE_PRECISION, a.pegMultiplier)

\* The quote amount in curve units: truncated, and one more on a REMOVE
\* that left a remainder
QuoteSwapAmount(a, swapAmount, swapDirection) ==
  LET swapAmountIntermediate == swapAmount * MARK_PRICE_PRECISION
      truncated == div(swapAmountIntermediate, a.pegMultiplier)
      roundUp == /\ swapDirection = REMOVE
                 /\ mod(swapAmountIntermediate, a.pegMultiplier) # ZERO
  IN  IF roundUp THEN truncated + ONE ELSE truncated

calculateAmmReservesAfterSwap(a, inputAssetType, swapAmount, swapDirection) ==
  IF ~(swapAmount >= ZERO)
  THEN Threw("assertionFailed")
  ELSE IF inputAssetType = "quote"
  THEN IF a.pegMultiplier = 0
       THEN Threw("divisionByZero")
       ELSE LET r == calculateSwapOutput(
                       a.quoteAssetReserve,
                       QuoteSwapAmount(a, swapAmount, swapDirection),
                       swapDirection, a.sqrtK * a.sqrtK)
            IN  IF r.status # "ok" THEN Threw(r.status)
                ELSE Reserves(r.in, r.out)
  ELSE LET r == calculateSwapOutput(a.baseAssetReserve, swapAmount,
                                    swapDirection, a.sqrtK * a.sqrtK)
       IN  IF r.status # "ok" THEN Threw(r.status)
           ELSE Reserves(r.out, r.in)

(**************************** getSwapDirection *****************************)
\* Faulty variant: the second test is on "base", so a short in quote adds
getSwapDirection_ShortQuoteAdds(inputAssetType, positionDirection) ==
  IF isVariant(positionDirection, "long") /\ inputAssetType = "base"
  THEN REMOVE
  ELSE IF isVariant(positionDirection, "short") /\ inputAssetType = "base"
  THEN REMOVE
  ELSE ADD

getSwapDirection(inputAssetType, positionDirection) ==
  IF isVariant(positionDirection, "long") /\ inputAssetType = "base"
  THEN REMOVE
  ELSE IF isVariant(positionDirection, "short") /\ inputAssetType = "quote"
  THEN REMOVE
  ELSE ADD

(***************************** squareRootBN ********************************)
\* The truncating integer square root of n >= 0, by bisection:
\* the r with r*r <= n < (r+1)*(r+1), searched in lo..hi
RECURSIVE sqrtBetween(_, _, _)
sqrtBetween(n, lo, hi) ==
  IF lo >= hi
  THEN lo
  ELSE LET mid == (lo + hi + 1) \div 2
       IN  IF mid * mid <= n
           THEN sqrtBetween(n, mid, hi)
           ELSE sqrtBetween(n, lo, mid - 1)

squareRootBN(n) == sqrtBetween(n, 0, n)

(************************** position valuation *****************************)
\* The value, in quote units, of closing the position against the curve
calculateBaseAssetValue(market, position) ==
  LET directionToClose ==
        IF position.baseAssetAmount > ZERO THEN SHORT ELSE LONG
      r == calculateAmmReservesAfterSwap(
             market.amm, "base", abs(position.baseAssetAmount),
             getSwapDirection("base", directionToClose))
  IN  IF r.status # "ok"
      THEN Threw(r.status)
      ELSE Value(div(abs(market.amm.quoteAssetReserve - r.quoteAssetReserve)
                       * market.amm.pegMultiplier,
                     PEG_PRECISION))

\* The position's value against the market, less what it was entered at
calculatePositionPNL(market, position) ==
  LET v == calculateBaseAssetValue(market, position)
  IN  IF v.status # "ok"
      THEN v
      ELSE IF position.baseAssetAmount > ZERO
      THEN Value(v.value - position.quoteAssetAmount)
      ELSE Value(position.quoteAssetAmount - v.value)

(************************* calculateAdjustKCost ****************************)
\* Faulty variant: the division is made before the multiplication
ScaleField_DivideFirst(field, numerator, denomenator) ==
  div(field, denomenator) * numerator

\* One field of the hypothetical curve: field.mul(numerator).div(denomenator)
ScaleField(field, numerator, denomenator) ==
  div(field * numerator, denomenator)

\* marketNewK: the copy of the market with the three curve fields scaled
MarketNewK(market, numerator, denomenator) ==
  [market EXCEPT
     !.amm.baseAssetReserve =
        ScaleField(market.amm.baseAssetReserve, numerator, denomenator),
     !.amm.quoteAssetReserve =
        ScaleField(market.amm.quoteAssetReserve, numerator, denomenator),
     !.amm.sqrtK = ScaleField(market.amm.sqrtK, numerator, denomenator)]

calculateAdjustKCost(market, numerator, denomenator) ==
  LET netUserPosition ==
        [baseAssetAmount |-> market.baseAssetAmount, quoteAssetAmount |-> 0]
      currentValue == calculateBaseAssetValue(market, netUserPosition)
  IN  IF currentValue.status # "ok"
      THEN currentValue
      ELSE IF denomenator = 0
      THEN Threw("divisionByZero")
      ELSE calculatePositionPNL(
             MarketNewK(market, numerator, denomenator),
             [netUserPosition EXCEPT !.quoteAssetAmount = currentValue.value])

(************************** calculateRepegCost *****************************)
calculateRepegCost(market, newPeg) ==
  LET netUserPosition ==
        [baseAssetAmount |-> market.baseAssetAmount, quoteAssetAmount |-> 0]
      currentValue == calculateBaseAssetValue(market, netUserPosition)
      marketNewPeg == [market EXCEPT !.amm.pegMultiplier = newPeg]
  IN  IF currentValue.status # "ok"
      THEN currentValue
      ELSE calculatePositionPNL(
             marketNewPeg,
             [netUserPosition EXCEPT !.quoteAssetAmount = currentValue.value])

(************************ calculateTerminalPrice ***************************)
\* Faulty variant: the position is closed in its own direction
calculateTerminalPrice_SameDirection(market) ==
  LET directionToClose ==
        IF market.baseAssetAmount > ZERO THEN LONG ELSE SHORT
      r == calculateAmmReservesAfterSwap(
             market.amm, "base", abs(market.baseAssetAmount),
             getSwapDirection("base", directionToClose))
  IN  IF r.status # "ok"
      THEN Threw(r.status)
      ELSE Value(div(div(r.quoteAssetReserve * MARK_PRICE_PRECISION
                           * market.amm.pegMultiplier,
                         PEG_PRECISION),
                     r.baseAssetReserve))

calculateTerminalPrice(market) ==
  LET directionToClose ==
        IF market.baseAssetAmount > ZERO THEN SHORT ELSE LONG
      r == calculateAmmReservesAfterSwap(
             market.amm, "base", abs(market.baseAssetAmount),
             getSwapDirection("base", directionToClose))
  IN  IF r.status # "ok"
      THEN Threw(r.status)
      ELSE Value(div(div(r.quoteAssetReserve * MARK_PRICE_PRECISION
                           * market.amm.pegMultiplier,
                         PEG_PRECISION),
                     r.baseAssetReserve))

(****************** calculateMaxBaseAssetAmountToTrade *********************)
\* Faulty variant: the first comparison is gte, so an equal target is a short
calculateMaxBaseAssetAmountToTrade_Gte(a, limit_price) ==
  LET invariant == a.sqrtK * a.sqrtK
      newBaseAssetReserveSquared ==
        div(div(invariant * MARK_PRICE_PRECISION * a.pegMultiplier,
                limit_price),
            PEG_PRECISION)
      newBaseAssetReserve == squareRootBN(newBaseAssetReserveSquared)
  IN  IF limit_price = 0
      THEN Threw("divisionByZero")
      ELSE IF newBaseAssetReserveSquared < 0
      THEN Threw("squareRootOfNegative")
      ELSE IF newBaseAssetReserve >= a.baseAssetReserve
      THEN Trade(newBaseAssetReserve - a.baseAssetReserve, SHORT)
      ELSE Trade(a.baseAssetReserve - newBaseAssetReserve, LONG)

calculateMaxBaseAssetAmountToTrade(a, limit_price) ==
  LET invariant == a.sqrtK * a.sqrtK
      newBaseAssetReserveSquared ==
        div(div(invariant * MARK_PRICE_PRECISION * a.pegMultiplier,
                limit_price),
            PEG_PRECISION)
      newBaseAssetReserve == squareRootBN(newBaseAssetReserveSquared)
  IN  IF limit_price = 0
      THEN Threw("divisionByZero")
      ELSE IF newBaseAssetReserveSquared < 0
      THEN Threw("squareRootOfNegative")
      ELSE IF newBaseAssetReserve > a.baseAssetReserve
      THEN Trade(newBaseAssetReserve - a.baseAssetReserve, SHORT)
      ELSE IF newBaseAssetReserve < a.baseAssetReserve
      THEN Trade(a.baseAssetReserve - newBaseAssetReserve, LONG)
      ELSE Trade(0, LONG)


(******************************* the state *********************************)
NoCall ==
  [fn |-> "none", inputAssetType |-> "none", swapAmount |-> 0,
   swapDirection |-> "none", positionDirection |-> "none",
   baseAssetAmount |-> 0, numerator |-> 0, denomenator |-> 0,
   limit_price |-> 0, newPeg |-> 0]

\* A live market's curve: positive reserves on the invariant
LiveAmms ==
  { [baseAssetReserve |-> b, quoteAssetReserve |-> q, sqrtK |-> s,
     pegMultiplier |-> p] :
      <<s, b, q, p>> \in
        { t \in (1..MaxSqrtK) \X (1..(MaxSqrtK * MaxSqrtK))
                \X (1..(MaxSqrtK * MaxSqrtK)) \X PegMultipliers :
            t[2] * t[3] = t[1] * t[1] } }

Init ==
  /\ amm \in LiveAmms
  /\ call = NoCall
  /\ ret = NoRet

SwapAmounts == (-1)..MaxSwap

CallReservesAfterSwap ==
  \E t \in {"quote", "base"}, x \in SwapAmounts, d \in {ADD, REMOVE} :
    /\ call = NoCall
    /\ call' = [NoCall EXCEPT !.fn = "calculateAmmReservesAfterSwap",
                              !.inputAssetType = t, !.swapAmount = x,
                              !.swapDirection = d]
    /\ ret' = calculateAmmReservesAfterSwap(amm, t, x, d)
    /\ UNCHANGED amm

\* The caller takes the returned reserves as the curve's new reserves
FeedSwap ==
  /\ call.fn = "calculateAmmReservesAfterSwap"
  /\ ret.status = "ok"
  /\ ret.quoteAssetReserve > 0
  /\ ret.baseAssetReserve > 0
  /\ amm' = [amm EXCEPT !.quoteAssetReserve = ret.quoteAssetReserve,
                        !.baseAssetReserve = ret.baseAssetReserve]
  /\ call' = NoCall
  /\ ret' = NoRet

\* The caller drops the result and is free to make the next call
Discard ==
  /\ call # NoCall
  /\ call' = NoCall
  /\ ret' = NoRet
  /\ UNCHANGED amm

CallGetSwapDirection ==
  \E t \in {"quote", "base"}, p \in {LONG, SHORT} :
    /\ call = NoCall
    /\ call' = [NoCall EXCEPT !.fn = "getSwapDirection",
                              !.inputAssetType = t, !.positionDirection = p]
    /\ ret' = Direction(getSwapDirection(t, p))
    /\ UNCHANGED amm

\* The market record a call is made on: the curve and a net position
Market(baseAssetAmount) ==
  [amm |-> amm, baseAssetAmount |-> baseAssetAmount]

NetPositions == (-MaxNet)..MaxNet

Scales == (-1)..MaxScale

LimitPrices == { k * LimitStep : k \in (-1)..MaxLimit }

MarkPrice ==
  calculatePrice(amm.baseAssetReserve, amm.quoteAssetReserve,
                 amm.pegMultiplier)

CallAdjustKCost ==
  \E n \in NetPositions, num \in Scales, den \in Scales :
    /\ call = NoCall
    /\ call' = [NoCall EXCEPT !.fn = "calculateAdjustKCost",
                              !.baseAssetAmount = n, !.numerator = num,
                              !.denomenator = den]
    /\ ret' = calculateAdjustKCost(Market(n), num, den)
    /\ UNCHANGED amm

CallRepegCost ==
  \E n \in NetPositions, p \in PegMultipliers :
    /\ call = NoCall
    /\ call' = [NoCall EXCEPT !.fn = "calculateRepegCost",
                              !.baseAssetAmount = n, !.newPeg = p]
    /\ ret' = calculateRepegCost(Market(n), p)
    /\ UNCHANGED amm

CallTerminalPrice ==
  \E n \in NetPositions :
    /\ call = NoCall
    /\ call' = [NoCall EXCEPT !.fn = "calculateTerminalPrice",
                              !.baseAssetAmount = n]
    /\ ret' = calculateTerminalPrice(Market(n))
    /\ UNCHANGED amm

\* The limit is one of the listed prices or the curve's current price
CallMaxBaseAssetAmountToTrade ==
  \E l \in LimitPrices \cup {MarkPrice} :
    /\ call = NoCall
    /\ call' = [NoCall EXCEPT !.fn = "calculateMaxBaseAssetAmountToTrade",
                              !.limit_price = l]
    /\ ret' = calculateMaxBaseAssetAmountToTrade(amm, l)
    /\ UNCHANGED amm

Next ==
  \/ CallReservesAfterSwap
  \/ FeedSwap
  \/ Discard
  \/ CallGetSwapDirection
  \/ CallAdjustKCost
  \/ CallRepegCost
  \/ CallTerminalPrice
  \/ CallMaxBaseAssetAmountToTrade

Spec == Init /\ [][Next]_vars

(******************************* the claims ********************************)
IsSwapCall == call.fn = "calculateAmmReservesAfterSwap"

\* sqrtK squared, the curve's invariant
K == amm.sqrtK * amm.sqrtK

\* The reserve a swap works on, and the one it recomputes, before the swap
InputReserveBefore ==
  IF call.inputAssetType = "quote"
  THEN amm.quoteAssetReserve ELSE amm.baseAssetReserve

OutputReserveBefore ==
  IF call.inputAssetType = "quote"
  THEN amm.baseAssetReserve ELSE amm.quoteAssetReserve

\* The amount the swap applies to its input reserve, in curve units
AppliedAmount ==
  IF call.inputAssetType = "quote"
  THEN QuoteSwapAmount(amm, call.swapAmount, call.swapDirection)
  ELSE call.swapAmount

\* The input reserve the swap arrives at
InputReserveAfter ==
  IF call.swapDirection = ADD
  THEN InputReserveBefore + AppliedAmount
  ELSE InputReserveBefore - AppliedAmount

ReturnedProduct == ret.baseAssetReserve * ret.quoteAssetReserve

\* C1 as stated: after a swap with a positive new input reserve the product
\* of the returned reserves is within one unit of sqrtK squared, also when
\* the swap was made on reserves an earlier swap returned.
C1_ProductWithinOneUnit ==
  (IsSwapCall /\ call.swapAmount >= 0 /\ InputReserveAfter > 0)
    => /\ ret.status = "ok"
       /\ abs(ReturnedProduct - K) <= 1

\* C1 amended: after a swap with a positive new input reserve the product of
\* the returned reserves never exceeds sqrtK squared and falls short of it by
\* less than the new input reserve (the remainder of the truncating
\* division), also when the swap was made on reserves an earlier swap
\* returned: the shortfall does not accumulate.
C1_ProductWithinInputReserve ==
  (IsSwapCall /\ call.swapAmount >= 0 /\ InputReserveAfter > 0)
    => /\ ret.status = "ok"
       /\ ReturnedProduct <= K
       /\ K - ReturnedProduct < InputReserveAfter

\* A swap made on fed (off-curve) reserves whose result is off the curve by
\* more than one unit
C1_Witness ==
  /\ IsSwapCall
  /\ call.swapAmount > 0
  /\ InputReserveAfter > 0
  /\ ret.status = "ok"
  /\ amm.baseAssetReserve * amm.quoteAssetReserve # K
  /\ K - ReturnedProduct > 1

\* C2 as stated: a swap of amount 0 returns the AMM's two reserves unchanged,
\* for every AMM with positive reserves.
C2_ZeroSwapIdentity ==
  (IsSwapCall /\ call.swapAmount = 0)
    => ret = Reserves(amm.quoteAssetReserve, amm.baseAssetReserve)

\* C2 amended: a swap of amount 0 returns the AMM's two reserves unchanged
\* whenever the reserve the swap recomputes already is the truncated quotient
\* sqrtK^2 / input reserve (in particular whenever base * quote = sqrtK^2).
C2_ZeroSwapIdentityOnCurve ==
  (/\ IsSwapCall
   /\ call.swapAmount = 0
   /\ OutputReserveBefore = K \div InputReserveBefore)
    => ret = Reserves(amm.quoteAssetReserve, amm.baseAssetReserve)

\* A zero swap on reserves that are off the exact curve and yet unchanged
C2_Witness ==
  /\ IsSwapCall
  /\ call.swapAmount = 0
  /\ amm.baseAssetReserve * amm.quoteAssetReserve # K
  /\ OutputReserveBefore = K \div InputReserveBefore
  /\ ret = Reserves(amm.quoteAssetReserve, amm.baseAssetReserve)

\* C7: getSwapDirection maps (long, base) and (short, quote) to REMOVE,
\* (long, quote) and (short, base) to ADD, and returns nothing else.
C7_DirectionTable ==
  call.fn = "getSwapDirection"
    => /\ ret.status = "ok"
       /\ ret.direction \in {ADD, REMOVE}
       /\ (ret.direction = REMOVE) <=>
            \/ call.positionDirection = LONG /\ call.inputAssetType = "base"
            \/ call.positionDirection = SHORT /\ call.inputAssetType = "quote"

C7_Witness ==
  /\ call.fn = "getSwapDirection"
  /\ call.positionDirection = SHORT
  /\ call.inputAssetType = "quote"
  /\ ret.direction = REMOVE

\* C8 as stated: a swap whose new input reserve is zero or negative fails and
\* returns no reserves.
C8_NonPositiveInputReserveFails ==
  (IsSwapCall /\ call.swapAmount >= 0 /\ InputReserveAfter <= 0)
    => ret.status \notin {"ok", "none"}

\* C10: on a quote-denominated swap the quote reserve moves by
\* floor(swapAmount * MARK_PRICE_PRECISION / pegMultiplier) on ADD and by the
\* ceiling of that quotient on REMOVE, so a REMOVE takes at least the exact
\* converted amount.
C10_QuoteConversionRounding ==
  (/\ IsSwapCall
   /\ call.inputAssetType = "quote"
   /\ call.swapAmount >= 0
   /\ ret.status = "ok")
    => LET exact == call.swapAmount * MARK_PRICE_PRECISION
           peg == amm.pegMultiplier
       IN  IF call.swapDirection = ADD
           THEN ret.quoteAssetReserve - amm.quoteAssetReserve
                  = exact \div peg
           ELSE /\ amm.quoteAssetReserve - ret.quoteAssetReserve
                     = (exact + peg - 1) \div peg
                /\ (amm.quoteAssetReserve - ret.quoteAssetReserve) * peg
                     >= exact

\* A REMOVE whose conversion left a remainder and was rounded up
C10_Witness ==
  /\ IsSwapCall
  /\ call.inputAssetType = "quote"
  /\ call.swapDirection = REMOVE
  /\ call.swapAmount > 0
  /\ (call.swapAmount * MARK_PRICE_PRECISION) % amm.pegMultiplier # 0
  /\ ret.status = "ok"
  /\ ret.quoteAssetReserve > 0

IsMaxTradeCall == call.fn = "calculateMaxBaseAssetAmountToTrade"

\* The reserves after trading the returned amount in the returned direction
AfterMaxTrade ==
  calculateAmmReservesAfterSwap(
    amm, "base", ret.value, getSwapDirection("base", ret.direction))

\* C3 as stated: trading the amount calculateMaxBaseAssetAmountToTrade
\* returns, in the direction it returns, leaves a price that does not cross
\* the limit: at most the limit after a long, at least the limit after a
\* short.  (Stated for the trades of a nonzero amount that leave both
\* reserves positive.)
C3_MaxTradeDoesNotCrossLimit ==
  (/\ IsMaxTradeCall
   /\ call.limit_price > 0
   /\ ret.status = "ok"
   /\ ret.value > 0
   /\ AfterMaxTrade.status = "ok"
   /\ AfterMaxTrade.baseAssetReserve > 0
   /\ AfterMaxTrade.quoteAssetReserve > 0)
    => LET price == calculatePrice(AfterMaxTrade.baseAssetReserve,
                                   AfterMaxTrade.quoteAssetReserve,
                                   amm.pegMultiplier)
       IN  /\ ret.direction = LONG => price <= call.limit_price
           /\ ret.direction = SHORT => price >= call.limit_price

\* The price calculatePrice returns is exact: its divisions left no remainder
MarkPriceIsExact ==
  (amm.quoteAssetReserve * MARK_PRICE_PRECISION * amm.pegMultiplier)
    % (PEG_PRECISION * amm.baseAssetReserve) = 0

\* C4 as stated: on an AMM with base * quote = sqrtK^2, a limit equal to
\* calculatePrice of the current reserves returns (0, long).  (Stated for
\* the reserves whose price is not truncated to 0.)
C4_LimitAtMarkPriceIsNoTrade ==
  (/\ IsMaxTradeCall
   /\ amm.baseAssetReserve * amm.quoteAssetReserve = K
   /\ call.limit_price = MarkPrice
   /\ MarkPrice > 0)
    => ret = Trade(0, LONG)

\* C4 amended: on an AMM with base * quote = sqrtK^2, a limit equal to
\* calculatePrice of the current reserves returns (0, long) whenever that
\* price is exact, that is whenever PEG_PRECISION * base divides
\* quote * MARK_PRICE_PRECISION * peg.
C4_LimitAtExactMarkPriceIsNoTrade ==
  (/\ IsMaxTradeCall
   /\ amm.baseAssetReserve * amm.quoteAssetReserve = K
   /\ call.limit_price = MarkPrice
   /\ MarkPriceIsExact)
    => ret = Trade(0, LONG)

\* The limit is the exact price of unequal reserves, and is none of the
\* listed limit prices
C4_Witness ==
  /\ IsMaxTradeCall
  /\ amm.baseAssetReserve * amm.quoteAssetReserve = K
  /\ amm.baseAssetReserve # amm.quoteAssetReserve
  /\ call.limit_price = MarkPrice
  /\ call.limit_price \notin LimitPrices
  /\ MarkPriceIsExact
  /\ ret = Trade(0, LONG)

\* C9 as stated: a limit price of zero or less fails before the division by
\* it is reached, and returns no pair.
C9_NonPositiveLimitFailsFast ==
  (IsMaxTradeCall /\ call.limit_price <= 0)
    => ret.status \notin {"ok", "none", "divisionByZero"}

IsAdjustKCall == call.fn = "calculateAdjustKCost"

\* C5 as stated: with numerator = denomenator # 0 the hypothetical market is
\* the original and the cost returned is 0, for any net position.
C5_AdjustKByOneCostsNothing ==
  (/\ IsAdjustKCall
   /\ call.numerator = call.denomenator
   /\ call.numerator # 0)
    => /\ MarketNewK(Market(call.baseAssetAmount), call.numerator,
                     call.denomenator) = Market(call.baseAssetAmount)
       /\ ret = Value(0)

\* C5 amended: with numerator = denomenator # 0 the hypothetical market is
\* the original, and the cost returned is 0 for every net position whose
\* valuation against the curve succeeds; when that valuation throws (closing
\* the position would empty the base reserve) the throw is what the call
\* gives.
C5_AdjustKByOneCostsNothingWhenValued ==
  (/\ IsAdjustKCall
   /\ call.numerator = call.denomenator
   /\ call.numerator # 0)
    => LET market == Market(call.baseAssetAmount)
           position == [baseAssetAmount |-> call.baseAssetAmount,
                        quoteAssetAmount |-> 0]
           valued == calculateBaseAssetValue(market, position)
       IN  /\ MarketNewK(market, call.numerator, call.denomenator) = market
           /\ valued.status = "ok" => ret = Value(0)
           /\ valued.status # "ok" => ret = valued

\* A net short valued against off-curve reserves, scaled by 3/3
C5_Witness ==
  /\ IsAdjustKCall
  /\ call.numerator = 3
  /\ call.denomenator = 3
  /\ call.baseAssetAmount < 0
  /\ amm.baseAssetReserve * amm.quoteAssetReserve # K
  /\ calculateBaseAssetValue(
       Market(call.baseAssetAmount),
       [baseAssetAmount |-> call.baseAssetAmount,
        quoteAssetAmount |-> 0]).value > 0
  /\ ret = Value(0)

IsTerminalPriceCall == call.fn = "calculateTerminalPrice"

\* C6: with the curve fixed, the terminal price of a net long is at most the
\* current price and does not rise as the position grows; the terminal price
\* of a net short smaller than the base reserve is at least the current
\* price and does not fall as the position grows.
C6_TerminalPriceMonotone ==
  IsTerminalPriceCall
    => LET n == call.baseAssetAmount
       IN  /\ n > 0 =>
                /\ ret.status = "ok"
                /\ ret.value <= MarkPrice
                /\ \A m \in NetPositions :
                     m >= n =>
                       /\ calculateTerminalPrice(Market(m)).status = "ok"
                       /\ calculateTerminalPrice(Market(m)).value <= ret.value
           /\ (n < 0 /\ -n < amm.baseAssetReserve) =>
                /\ ret.status = "ok"
                /\ ret.value >= MarkPrice
                /\ \A m \in NetPositions :
                     (m <= n /\ -m < amm.baseAssetReserve) =>
                       /\ calculateTerminalPrice(Market(m)).status = "ok"
                       /\ calculateTerminalPrice(Market(m)).value >= ret.value

\* A net long whose terminal price is strictly below the current price and
\* strictly above that of a larger net long
C6_WitnessLong ==
  /\ IsTerminalPriceCall
  /\ call.baseAssetAmount > 0
  /\ call.baseAssetAmount < MaxNet
  /\ ret.status = "ok"
  /\ ret.value < MarkPrice
  /\ calculateTerminalPrice(Market(call.baseAssetAmount + 1)).value < ret.value

====
